---- MODULE Spec2Model ----
(***************************************************************************)
(* seatalkbot: the retry helper (helper/retry.go) and the client            *)
(* (client.go): the access-token lifecycle (NewClient, UpdateAccessToken,  *)
(* AccessToken, Close and the background scheduler goroutine) and the      *)
(* business calls (SendPrivateMessage, SendGroupMessage, GetGroupIDs).     *)
(***************************************************************************)
EXTENDS Integers, Sequences, FiniteSets, TLC

(* ------------------------------------------------------------------ *)
(* Bounds of the model                                                  *)
(* ------------------------------------------------------------------ *)

\* largest positive maxRetry the stand-alone RunWithRetry call is given
MaxRetryIn == 4

\* largest number of failures the scripted operation produces before succeeding
MaxFail == 4

\* number of Close calls on one client that are told apart
MaxClose == 2

\* how far one scheduler refresh counts its invocations, failures and sleeps
MaxSchedCount == 1

\* most pages of a server's listing of joined groups
MaxPages == 3

\* most group ids on one page
MaxPageIDs == 2

\* most page requests of one GetGroupIDs call that are followed
MaxRequests == 4

(* ------------------------------------------------------------------ *)
(* Program constants                                                    *)
(* ------------------------------------------------------------------ *)

\* maxRetry of the initial refresh in NewClient
InitMaxRetry == 3

\* pageSize, the page_size of a listing request
PageSize == 50

\* maxRetry of the scheduler's refresh (0 or lower: retry until success)
SchedMaxRetry == -1

\* interval of the initial refresh's retry, in seconds
InitInterval == 1

\* interval of the scheduler's retry, in seconds
SchedInterval == 10

(* ------------------------------------------------------------------ *)
(* Values                                                               *)
(* ------------------------------------------------------------------ *)

Nil == "nil"
NoRet == "running"

Max(a, b) == IF a >= b THEN a ELSE b

\* RunWithRetry compares i only against maxRetry (retry.go:18), so every value
\* of i above maxRetry behaves alike: the counter is kept up to ICap(maxRetry).
ICap(maxRetry) == Max(maxRetry, 0) + 1

\* The stand-alone call counts its invocations, failures and sleeps up to
\* CountCap, which no terminating call reaches.
CountCap == Max(MaxRetryIn, MaxFail + 1) + 1

(* ------------------------------------------------------------------ *)
(* Strings and the auth endpoint's responses                            *)
(* ------------------------------------------------------------------ *)

\* A Go string is a sequence of bytes; "" is the empty sequence.
EmptyString == << >>

\* The app_access_token field of a 200 response body, as gjson finds it: a JSON
\* string (Str is its contents, Raw its text with the quotes, the quote byte
\* written ') or JSON null, which Exists() and whose String() is "".
JsonString(str) == [type |-> "String", str |-> str, raw |-> <<"'">> \o str \o <<"'">>]
JsonNull == [type |-> "Null", str |-> EmptyString, raw |-> <<"n", "u", "l", "l">>]

\* the values the auth endpoint may put in app_access_token
TokenValues == {JsonString(<<"a">>), JsonString(<<"b", "c">>), JsonNull}

\* the ways one credential exchange can fail once the request is on the wire:
\* httpClient.Do fails, status is not 200, io.ReadAll fails, the field is absent
ExchangeErrors == {"transport_err", "status_not_200", "read_err", "no_token"}

IncTo(n, cap) == IF n < cap THEN n + 1 ELSE n

VARIABLES
    rw,          \* the activations of helper.RunWithRetry: locals and position
    opScript,    \* the operation of the stand-alone call: always fails, or
                 \* fails failN times and then succeeds
    config,      \* the Config given to NewClient
    mainPc,      \* position of the NewClient call
    client,      \* what NewClient returned: "none" yet, "nil", or the client "c"
    newErr,      \* the error NewClient returned: <<message>> or <<message, cause>>
    cancelled,   \* ctx.Done() is closed (c.stop was called)
    schedPc,     \* position of the scheduler goroutine
    schedStarts, \* number of scheduler goroutines ever started
    tickReady,   \* ticker.C (capacity 1) holds a tick
    upc,         \* position of each UpdateAccessToken activation
    uresp,       \* the app_access_token value of the response being stored
    stW,         \* words of c.accessToken the activation has stored so far
    accessToken, \* c.accessToken: the string header, a data pointer and a length
    ucall,       \* the user's last call on the client
    uret,        \* the error the user's last call returned, if it returns one
    observed,    \* the string the user's last call returned, if AccessToken()
    torn,        \* the activation's store was interleaved with another's
    closeCalls,  \* number of Close calls made on the client, up to MaxClose
    ureqs,       \* HTTP requests the user's last call has issued
    lastRefreshed, \* the token extracted by the refresh that returned nil last
    bpc,         \* position of the user's business call: "idle", or the call
                 \* whose request is in flight
    sresp,       \* the response to the request of the user's last send
    pages,       \* the server's listing of joined groups: how many ids each
                 \* of its pages holds
    gg           \* the user's last GetGroupIDs call: its locals, the query of
                 \* its last request and the ids it returned

vars == <<rw, opScript, config, mainPc, client, newErr, cancelled, schedPc,
          schedStarts, tickReady, upc, uresp, stW, accessToken, ucall, uret,
          observed, torn, closeCalls, ureqs, lastRefreshed, bpc, sresp, pages,
          gg>>

clientVars == <<config, mainPc, client, newErr, cancelled, schedPc, schedStarts,
                tickReady, upc, uresp, stW, accessToken, ucall, uret, observed,
                torn, closeCalls, ureqs, lastRefreshed, bpc, sresp, pages, gg>>

\* the activations of RunWithRetry: the initial refresh of NewClient, the
\* scheduler's refresh, and a stand-alone call with an arbitrary operation
Retriers == {"init", "sched", "call"}

(* ------------------------------------------------------------------ *)
(* helper.RunWithRetry                                                  *)
(* ------------------------------------------------------------------ *)

\* interval is the third parameter, delay the duration of the time.Sleep
\* begun last (0: none yet)
RetryIdle == [pc |-> "idle", i |-> 0, maxRetry |-> 0, ret |-> NoRet,
              calls |-> 0, fails |-> 0, sleeps |-> 0, cap |-> 0,
              interval |-> 0, delay |-> 0]

\* entry: var i int.  cap is how far the activation's invocations, failures
\* and sleeps are counted.
RetryStart(maxRetry, cap) ==
    [RetryIdle EXCEPT !.pc = "loop", !.maxRetry = maxRetry, !.cap = cap]

\* the call's interval parameter
WithInterval(s, interval) == [s EXCEPT !.interval = interval]

\* helper.RunWithRetry(fn, 3, 1*time.Second) of NewClient
InitialRetry ==
    WithInterval(RetryStart(InitMaxRetry, InitMaxRetry + 1), InitInterval)

\* helper.RunWithRetry(fn, -1, 10*time.Second) of the scheduler
SchedulerRetry ==
    WithInterval(RetryStart(SchedMaxRetry, MaxSchedCount), SchedInterval)

\* a sleep that grows with the attempt number
SleepForBackoff(s) == s.interval * s.i

\* the argument of time.Sleep
SleepFor(s) == s.interval

\* top of the loop: i++ ; err := fn()
\* (calls, fails and sleeps count the invocations of fn, those that returned an
\* error, and the completed time.Sleep calls)
RetryInvoke(s) == [s EXCEPT !.pc = "fn", !.i = IncTo(s.i, ICap(s.maxRetry)),
                            !.calls = IncTo(s.calls, s.cap)]

\* the exit test written with > instead of >= (one attempt too many)
RetryExhaustedOffByOne(s) == s.maxRetry > 0 /\ s.i > s.maxRetry

\* the test maxRetry > 0 left out: no unlimited retry
RetryExhaustedNoUnlimited(s) == s.i >= s.maxRetry

\* if maxRetry > 0 && i >= maxRetry
RetryExhausted(s) == s.maxRetry > 0 /\ s.i >= s.maxRetry

\* a loop without the success exit: it goes on after fn returned nil
RetryAfterFnNoSuccessExit(s, err) ==
    IF RetryExhausted(s)
    THEN [s EXCEPT !.pc = "done", !.ret = err]
    ELSE [s EXCEPT !.pc = "sleep", !.delay = SleepFor(s)]

\* fn returned err: return nil, return err, or time.Sleep(interval)
RetryAfterFn(s, err) ==
    IF err = Nil
    THEN [s EXCEPT !.pc = "done", !.ret = Nil]
    ELSE IF RetryExhausted(s)
         THEN [s EXCEPT !.pc = "done", !.ret = err,
                        !.fails = IncTo(s.fails, s.cap)]
         ELSE [s EXCEPT !.pc = "sleep", !.fails = IncTo(s.fails, s.cap),
                        !.delay = SleepFor(s)]

\* time.Sleep(interval) returned: back to the top of the loop
RetryWake(s) == [s EXCEPT !.pc = "loop", !.sleeps = IncTo(s.sleeps, s.cap)]

(* ------------------------------------------------------------------ *)
(* The stand-alone call: RunWithRetry(op, maxRetry, interval) with an   *)
(* operation that fails failN times and then succeeds, or always        *)
(* fails.  Every invocation's error is distinct.                        *)
(* ------------------------------------------------------------------ *)

ErrOf(n) == <<"err", n>>

\* the result of the n-th invocation of the scripted operation
OpResult(n) == IF ~opScript.always /\ n > opScript.failN THEN Nil ELSE ErrOf(n)

CallInvoke ==
    /\ rw["call"].pc = "loop"
    /\ rw' = [rw EXCEPT !["call"] = RetryInvoke(@)]
    /\ UNCHANGED <<opScript, clientVars>>

CallOpReturns ==
    /\ rw["call"].pc = "fn"
    /\ rw' = [rw EXCEPT !["call"] = RetryAfterFn(@, OpResult(@.calls))]
    /\ UNCHANGED <<opScript, clientVars>>

CallWake ==
    /\ rw["call"].pc = "sleep"
    /\ rw' = [rw EXCEPT !["call"] = RetryWake(@)]
    /\ UNCHANGED <<opScript, clientVars>>

(* ------------------------------------------------------------------ *)
(* c.accessToken and the token of a response                            *)
(* ------------------------------------------------------------------ *)

\* A Go string variable is two machine words, a data pointer and a length; the
\* pointer is modelled by the bytes it points to.
Header(str) == [ptr |-> str, len |-> Len(str)]

\* The string a load of the two words yields: the first len bytes at ptr.
\* Bytes past the end of the data are not the token's, written "?".
LoadString(h) ==
    IF h.len <= Len(h.ptr)
    THEN SubSeq(h.ptr, 1, h.len)
    ELSE h.ptr \o [k \in 1 .. (h.len - Len(h.ptr)) |-> "?"]

\* c.accessToken = accessToken.Raw: the JSON text, quotes included
ExtractedTokenRaw(v) == v.raw

\* accessToken.String(): the contents of a JSON string, "" for null
ExtractedToken(v) == IF v.type = "String" THEN v.str ELSE EmptyString

NoValue == [type |-> "None", str |-> EmptyString, raw |-> EmptyString]
NotRead == <<"not read">>
Words == {"ptr", "len"}

\* the activations of UpdateAccessToken: under the initial retry, under the
\* scheduler's retry, and called by a user of the client
Refreshers == {"init", "sched", "user"}

(* ------------------------------------------------------------------ *)
(* UpdateAccessToken                                                    *)
(* ------------------------------------------------------------------ *)

\* the context an activation runs under is done: NewClient and the scheduler
\* pass the client's ctx, the user a context of their own
CtxDone(r) == r # "user" /\ cancelled

\* what fails before a request is on the wire: http.NewRequestWithContext on
\* an unparsable host, httpClient.Do on a context that is already done
LocalError(r) ==
    IF config.host = "bad" THEN "request_err"
    ELSE IF CtxDone(r) THEN "ctx_canceled"
    ELSE Nil

\* UpdateAccessToken returns e to its caller
UATReturn(r, e) ==
    IF r = "user"
    THEN uret' = e /\ UNCHANGED rw
    ELSE rw' = [rw EXCEPT ![r] = RetryAfterFn(@, e)] /\ UNCHANGED uret

\* RunWithRetry's loop invokes fn: UpdateAccessToken up to httpClient.Do
RetryUpdateAccessToken(r) ==
    /\ r \in {"init", "sched"}
    /\ rw[r].pc = "loop"
    /\ upc[r] = "idle"
    /\ IF LocalError(r) # Nil
       THEN /\ rw' = [rw EXCEPT ![r] = RetryAfterFn(RetryInvoke(@), LocalError(r))]
            /\ UNCHANGED upc
       ELSE /\ rw' = [rw EXCEPT ![r] = RetryInvoke(@)]
            /\ upc' = [upc EXCEPT ![r] = "http"]
    /\ UNCHANGED <<opScript, config, mainPc, client, newErr, cancelled,
                   schedPc, schedStarts, tickReady, uresp, stW, accessToken,
                   uret, observed, torn, ucall, closeCalls, ureqs,
                   lastRefreshed, bpc, sresp, pages, gg>>

\* a user calls UpdateAccessToken on the client
UserUpdateAccessToken ==
    /\ client = "c"
    /\ upc["user"] = "idle"
    /\ IF LocalError("user") # Nil
       THEN uret' = LocalError("user") /\ UNCHANGED upc
       ELSE uret' = NoRet /\ upc' = [upc EXCEPT !["user"] = "http"]
    /\ observed' = NotRead
    /\ ucall' = "UpdateAccessToken"
    /\ ureqs' = IF LocalError("user") # Nil THEN 0 ELSE 1
    /\ UNCHANGED <<rw, opScript, config, mainPc, client, newErr, cancelled,
                   schedPc, schedStarts, tickReady, uresp, stW, accessToken,
                   torn, closeCalls, lastRefreshed, bpc, sresp, pages, gg>>

\* a user's failed exchange made again, within the budget of the initial refresh
UpdateAccessTokenFailsRetried(r) ==
    /\ upc[r] = "http"
    /\ IF r = "user" /\ ureqs < InitMaxRetry
       THEN ureqs' = ureqs + 1 /\ UNCHANGED <<rw, uret, upc>>
       ELSE /\ \E e \in ExchangeErrors : UATReturn(r, e)
            /\ upc' = [upc EXCEPT ![r] = "idle"]
            /\ UNCHANGED ureqs
    /\ UNCHANGED <<opScript, config, mainPc, client, newErr, cancelled,
                   schedPc, schedStarts, tickReady, uresp, stW, accessToken,
                   observed, torn, ucall, closeCalls, lastRefreshed,
                   lastRefreshed, bpc, sresp, bpc, sresp, pages, gg, pages,
                   gg>>

\* the store placed ahead of the Exists test: a body without the field
\* stores the String() of a missing value, ""
UpdateAccessTokenFailsAfterStore(r) ==
    /\ upc[r] = "http"
    /\ \E e \in ExchangeErrors :
          /\ UATReturn(r, e)
          /\ accessToken' = IF e = "no_token" THEN Header(EmptyString)
                                              ELSE accessToken
    /\ upc' = [upc EXCEPT ![r] = "idle"]
    /\ UNCHANGED <<opScript, config, mainPc, client, newErr, cancelled,
                   schedPc, schedStarts, tickReady, uresp, stW, observed,
                   torn, ucall, closeCalls, ureqs, lastRefreshed,
                   lastRefreshed, bpc, sresp, bpc, sresp, pages, gg, pages,
                   gg>>

\* the exchange fails: Do, the status test, io.ReadAll or the Exists test
UpdateAccessTokenFails(r) ==
    /\ upc[r] = "http"
    /\ \E e \in ExchangeErrors : UATReturn(r, e)
    /\ upc' = [upc EXCEPT ![r] = "idle"]
    /\ UNCHANGED <<opScript, config, mainPc, client, newErr, cancelled,
                   schedPc, schedStarts, tickReady, uresp, stW, accessToken,
                   observed, torn, ucall, closeCalls, ureqs, lastRefreshed,
                   bpc, sresp, pages, gg>>

\* status 200 and a body holding app_access_token
UpdateAccessTokenGetsToken(r) ==
    /\ upc[r] = "http"
    /\ \E v \in TokenValues : uresp' = [uresp EXCEPT ![r] = v]
    /\ upc' = [upc EXCEPT ![r] = "store"]
    /\ UNCHANGED <<rw, opScript, config, mainPc, client, newErr, cancelled,
                   schedPc, schedStarts, tickReady, stW, accessToken, uret,
                   observed, torn, ucall, closeCalls, ureqs, lastRefreshed,
                   bpc, sresp, pages, gg>>

\* c.accessToken = accessToken.String(): an unsynchronised store of two words,
\* in either order; return nil follows the second
UpdateAccessTokenStore(r) ==
    /\ upc[r] = "store"
    /\ \E w \in Words \ stW[r] :
          /\ accessToken' =
                [accessToken EXCEPT ![w] = Header(ExtractedToken(uresp[r]))[w]]
          /\ IF stW[r] \cup {w} = Words
             THEN /\ upc' = [upc EXCEPT ![r] = "idle"]
                  /\ stW' = [stW EXCEPT ![r] = {}]
                  /\ uresp' = [uresp EXCEPT ![r] = NoValue]
                  /\ UATReturn(r, Nil)
             ELSE /\ stW' = [stW EXCEPT ![r] = @ \cup {w}]
                  /\ UNCHANGED <<upc, uresp, rw, uret>>
          /\ torn' = [x \in Refreshers |->
                        IF x = r
                        THEN (IF stW[r] \cup {w} = Words THEN FALSE ELSE torn[r])
                        ELSE torn[x] \/ (upc[x] = "store" /\ stW[x] # {})]
    /\ lastRefreshed' = IF stW[r] # {} THEN ExtractedToken(uresp[r]) ELSE lastRefreshed
    /\ UNCHANGED <<opScript, config, mainPc, client, newErr, cancelled,
                   schedPc, schedStarts, tickReady, observed, ucall,
                   closeCalls, ureqs, bpc, sresp, pages, gg>>

(* ------------------------------------------------------------------ *)
(* AccessToken and Close                                                *)
(* ------------------------------------------------------------------ *)

\* return c.accessToken: an unsynchronised load of the two words
AccessToken ==
    /\ client = "c"
    /\ upc["user"] = "idle"
    /\ observed' = LoadString(accessToken)
    /\ uret' = NoRet
    /\ ucall' = "AccessToken"
    /\ ureqs' = 0
    /\ UNCHANGED <<rw, opScript, config, mainPc, client, newErr, cancelled,
                   schedPc, schedStarts, tickReady, upc, uresp, stW,
                   accessToken, torn, closeCalls, lastRefreshed, bpc, sresp,
                   pages, gg>>

\* Close that also resets the stored token
CloseClearsToken ==
    /\ client = "c"
    /\ upc["user"] = "idle"
    /\ cancelled' = TRUE
    /\ accessToken' = Header(EmptyString)
    /\ uret' = Nil
    /\ observed' = NotRead
    /\ ucall' = "Close"
    /\ closeCalls' = IncTo(closeCalls, MaxClose)
    /\ ureqs' = 0
    /\ UNCHANGED <<rw, opScript, config, mainPc, client, newErr, schedPc,
                   schedStarts, tickReady, upc, uresp, stW, torn,
                   lastRefreshed, bpc, sresp, bpc, sresp, pages, gg, pages,
                   gg>>

\* if c.stop != nil { c.stop() }; return nil.  c.stop is the CancelFunc of
\* the client's ctx: calls after the first do nothing.
Close ==
    /\ client = "c"
    /\ upc["user"] = "idle"
    /\ cancelled' = TRUE
    /\ uret' = Nil
    /\ observed' = NotRead
    /\ ucall' = "Close"
    /\ closeCalls' = IncTo(closeCalls, MaxClose)
    /\ ureqs' = 0
    /\ UNCHANGED <<rw, opScript, config, mainPc, client, newErr, schedPc,
                   schedStarts, tickReady, upc, uresp, stW, accessToken,
                   torn, lastRefreshed, bpc, sresp, pages, gg>>

(* ------------------------------------------------------------------ *)
(* SendPrivateMessage and SendGroupMessage                              *)
(* ------------------------------------------------------------------ *)

\* http.StatusOK
StatusOK == 200

\* a number as gjson finds it
JsonNumber(n) == [type |-> "Number", num |-> n]
JsonTrue == [type |-> "True"]

\* Result.Exists(): false only for a field that is not there (null exists)
GjsonExists(v) == v.type # "None"

\* Result.Int(): the number, 1 for true, 0 for null, false and objects
\* (a string would be parsed; no response here holds a string-valued code)
GjsonInt(v) ==
    CASE v.type = "Number" -> v.num
      [] v.type = "True" -> 1
      [] OTHER -> 0

\* Result.String() of a string or a missing field
GjsonString(v) == IF v.type = "String" THEN v.str ELSE EmptyString

\* what the code field of a response body may be
CodeFields == {NoValue, JsonNumber(0), JsonNumber(100), JsonNull, JsonTrue}

\* what the message_id field of a response body may be
MessageIDFields == {NoValue, JsonString(<<"m">>)}

NoResponse == [kind |-> "none"]

\* the outcomes of httpClient.Do and of reading the response: Do fails; a
\* status other than 200; a body that cannot be read; a body read
SendResponses ==
    {[kind |-> "transport_err"], [kind |-> "read_err", status |-> StatusOK]}
    \cup {[kind |-> "body", status |-> st, code |-> c, msgid |-> m] :
            st \in {StatusOK, StatusOK + 300}, c \in CodeFields,
            m \in MessageIDFields}

\* !code.Exists() || code.Int() != 0
CodeRejected(code) == ~GjsonExists(code) \/ GjsonInt(code) # 0

\* the error a send returns for a response, Nil for none
SendError(resp) ==
    IF resp.kind = "transport_err" THEN "transport_err"
    ELSE IF resp.status # StatusOK THEN "status_not_200"
    ELSE IF resp.kind = "read_err" THEN "read_err"
    ELSE IF CodeRejected(resp.code) THEN "code_err"
    ELSE Nil

SendKinds == {"SendPrivateMessage", "SendGroupMessage"}

\* json.Marshal of the body and http.NewRequestWithContext (either can fail:
\* a Message that is not valid JSON, a nil ctx), the headers (a load of
\* c.accessToken), httpClient.Do
SendBegin(kind) ==
    /\ client = "c"
    /\ bpc = "idle"
    /\ \E built \in BOOLEAN :
          IF built
          THEN bpc' = kind /\ ureqs' = 1 /\ uret' = NoRet
          ELSE bpc' = "idle" /\ ureqs' = 0 /\ uret' = "request_err"
    /\ ucall' = kind
    /\ observed' = NotRead
    /\ sresp' = NoResponse
    /\ UNCHANGED <<rw, opScript, config, mainPc, client, newErr, cancelled,
                   schedPc, schedStarts, tickReady, upc, uresp, stW,
                   accessToken, torn, closeCalls, lastRefreshed, pages, gg,
                   pages, gg>>

\* a failed request made again, up to the attempts of the initial refresh
SendReturnsRetried(kind) ==
    /\ bpc = kind
    /\ \E resp \in SendResponses :
          /\ sresp' = resp
          /\ IF SendError(resp) # Nil /\ ureqs < InitMaxRetry
             THEN ureqs' = ureqs + 1 /\ UNCHANGED <<bpc, uret, observed>>
             ELSE /\ uret' = SendError(resp)
                  /\ bpc' = "idle"
                  /\ UNCHANGED <<ureqs, observed>>
    /\ UNCHANGED <<rw, opScript, config, mainPc, client, newErr, cancelled,
                   schedPc, schedStarts, tickReady, upc, uresp, stW,
                   accessToken, torn, closeCalls, lastRefreshed, ucall,
                   pages, gg, pages, gg>>

\* Do returned or failed; the status test, io.ReadAll, the test of code, and
\* the return: the error, and for SendGroupMessage the message_id ("" with
\* an error)
SendReturns(kind) ==
    /\ bpc = kind
    /\ \E resp \in SendResponses :
          /\ sresp' = resp
          /\ uret' = SendError(resp)
          /\ observed' = IF kind = "SendGroupMessage"
                         THEN (IF SendError(resp) = Nil
                               THEN GjsonString(resp.msgid) ELSE EmptyString)
                         ELSE NotRead
    /\ bpc' = "idle"
    /\ UNCHANGED <<rw, opScript, config, mainPc, client, newErr, cancelled,
                   schedPc, schedStarts, tickReady, upc, uresp, stW,
                   accessToken, torn, closeCalls, lastRefreshed, ucall,
                   ureqs, pages, gg, pages, gg>>

(* ------------------------------------------------------------------ *)
(* GetGroupIDs and getGroupIDs                                          *)
(* ------------------------------------------------------------------ *)

\* The server's listing has Len(pages) pages, page k holding pages[k] group
\* ids; the j-th id of page k is written <<k, j>>.
Listings == UNION {[1 .. n -> 0 .. MaxPageIDs] : n \in 1 .. MaxPages}

PageIDs(k) == [j \in 1 .. pages[k] |-> <<k, j>>]

\* every id of the listing, page after page
RECURSIVE IDsUpTo(_)
IDsUpTo(k) == IF k = 0 THEN << >> ELSE IDsUpTo(k - 1) \o PageIDs(k)
AllIDs == IDsUpTo(Len(pages))

\* the cursor that asks for page k, k > 1
CursorOf(k) == <<"cursor", k>>

\* the page a query asks for: the first without a cursor parameter
PageAsked(query) == IF "cursor" \in DOMAIN query THEN query.cursor[2] ELSE 1

\* next_cursor of page k: empty on the last page
NextCursorOf(k) == IF k < Len(pages) THEN CursorOf(k + 1) ELSE EmptyString

\* q.Set("page_size", ...); if cursor != "" { q.Set("cursor", cursor) }
QueryOf(cursor) ==
    IF cursor # EmptyString
    THEN [page_size |-> PageSize, cursor |-> cursor]
    ELSE [page_size |-> PageSize]

NoQuery == [none |-> TRUE]

\* var groupIDs []string; var cursor string
GGStart == [cursor |-> EmptyString, groupIDs |-> << >>, query |-> NoQuery,
            ret |-> << >>]

\* the outcomes of a page request for page k: Do fails; a status other than
\* 200; a body that cannot be read; a body with some code field
ListResponses(k) ==
    {[kind |-> "transport_err"], [kind |-> "read_err", status |-> StatusOK]}
    \cup {[kind |-> "body", status |-> st, code |-> c, ids |-> PageIDs(k),
           next |-> NextCursorOf(k)] :
            st \in {StatusOK, StatusOK + 300}, c \in CodeFields}

\* json.Unmarshal into getGroupIDsRespBody{Code: -1}: a number is decoded, an
\* absent or null code leaves the -1, any other value is an error
CodeDecodes(code) == code.type \in {"Number", "None", "Null"}
DecodedCode(code) == IF code.type = "Number" THEN code.num ELSE -1

\* the error getGroupIDs returns for a response, Nil for none
ListError(resp) ==
    IF resp.kind = "transport_err" THEN "transport_err"
    ELSE IF resp.status # StatusOK THEN "status_not_200"
    ELSE IF resp.kind = "read_err" THEN "read_err"
    ELSE IF ~CodeDecodes(resp.code) THEN "unmarshal_err"
    ELSE IF DecodedCode(resp.code) # 0 THEN "code_err"
    ELSE Nil

\* GetGroupIDs is called: the locals, up to the top of the loop
GetGroupIDsBegin ==
    /\ client = "c"
    /\ bpc = "idle"
    /\ bpc' = "list"
    /\ gg' = GGStart
    /\ ucall' = "GetGroupIDs"
    /\ uret' = NoRet
    /\ ureqs' = 0
    /\ observed' = NotRead
    /\ sresp' = NoResponse
    /\ UNCHANGED <<rw, opScript, config, mainPc, client, newErr, cancelled,
                   schedPc, schedStarts, tickReady, upc, uresp, stW,
                   accessToken, torn, closeCalls, lastRefreshed, pages>>

\* c.getGroupIDs(ctx, cursor) up to httpClient.Do: the request (it can fail:
\* a nil ctx), the header, the query, Do
GetGroupIDsRequest ==
    /\ bpc = "list"
    /\ ureqs < MaxRequests
    /\ \E built \in BOOLEAN :
          IF built
          THEN /\ gg' = [gg EXCEPT !.query = QueryOf(gg.cursor)]
               /\ ureqs' = ureqs + 1
               /\ bpc' = "listWait"
               /\ UNCHANGED uret
          ELSE /\ gg' = [gg EXCEPT !.ret = << >>]
               /\ uret' = "request_err"
               /\ bpc' = "idle"
               /\ UNCHANGED ureqs
    /\ UNCHANGED <<rw, opScript, config, mainPc, client, newErr, cancelled,
                   schedPc, schedStarts, tickReady, upc, uresp, stW,
                   accessToken, torn, closeCalls, lastRefreshed, pages,
                   ucall, observed, sresp>>

\* the loop with cursor = nextCursor ahead of the next iteration
GetGroupIDsResponseAdvances ==
    /\ bpc = "listWait"
    /\ \E resp \in ListResponses(PageAsked(gg.query)) :
          IF ListError(resp) # Nil
          THEN /\ gg' = [gg EXCEPT !.ret = << >>]
               /\ uret' = ListError(resp)
               /\ bpc' = "idle"
          ELSE IF resp.next = EmptyString
          THEN /\ gg' = [gg EXCEPT !.groupIDs = @ \o resp.ids,
                                   !.ret = gg.groupIDs \o resp.ids]
               /\ uret' = Nil
               /\ bpc' = "idle"
          ELSE /\ gg' = [gg EXCEPT !.groupIDs = @ \o resp.ids,
                                   !.cursor = resp.next]
               /\ bpc' = "list"
               /\ UNCHANGED uret
    /\ UNCHANGED <<rw, opScript, config, mainPc, client, newErr, cancelled,
                   schedPc, schedStarts, tickReady, upc, uresp, stW,
                   accessToken, torn, closeCalls, lastRefreshed, pages,
                   ucall, observed, sresp, ureqs>>

\* the rest of getGroupIDs and of the loop's body: on an error return nil,
\* err; else append the ids and leave the loop on an empty next_cursor
\* (cursor is not assigned)
GetGroupIDsResponse ==
    /\ bpc = "listWait"
    /\ \E resp \in ListResponses(PageAsked(gg.query)) :
          IF ListError(resp) # Nil
          THEN /\ gg' = [gg EXCEPT !.ret = << >>]
               /\ uret' = ListError(resp)
               /\ bpc' = "idle"
          ELSE IF resp.next = EmptyString
          THEN /\ gg' = [gg EXCEPT !.groupIDs = @ \o resp.ids,
                                   !.ret = gg.groupIDs \o resp.ids]
               /\ uret' = Nil
               /\ bpc' = "idle"
          ELSE /\ gg' = [gg EXCEPT !.groupIDs = @ \o resp.ids]
               /\ bpc' = "list"
               /\ UNCHANGED uret
    /\ UNCHANGED <<rw, opScript, config, mainPc, client, newErr, cancelled,
                   schedPc, schedStarts, tickReady, upc, uresp, stW,
                   accessToken, torn, closeCalls, lastRefreshed, pages,
                   ucall, observed, sresp, ureqs>>

(* ------------------------------------------------------------------ *)
(* NewClient                                                            *)
(* ------------------------------------------------------------------ *)

\* the nil test left out
HTTPClientMissingUnchecked(cfg) == FALSE

\* if config.HTTPClient == nil
HTTPClientMissing(cfg) == cfg.httpNil

\* the error of the initial refresh ignored
InitialRefreshFailedIgnored(ret) == FALSE

\* if err != nil, after helper.RunWithRetry
InitialRefreshFailed(ret) == ret # Nil

\* runAccessTokenScheduler called ahead of the initial refresh
NewClientEnterSchedulerFirst ==
    /\ mainPc = "start"
    /\ IF HTTPClientMissing(config)
       THEN /\ mainPc' = "failed"
            /\ client' = "nil"
            /\ newErr' = <<"http client should not be nil">>
            /\ UNCHANGED <<rw, config, accessToken, schedPc, schedStarts>>
       ELSE /\ mainPc' = "refresh"
            /\ config' = [config EXCEPT !.host = IF @ = "" THEN "default" ELSE @]
            /\ accessToken' = Header(EmptyString)
            /\ rw' = [rw EXCEPT !["init"] = InitialRetry]
            /\ schedPc' = "spawned"
            /\ schedStarts' = schedStarts + 1
            /\ UNCHANGED <<client, newErr>>
    /\ UNCHANGED <<opScript, cancelled, tickReady, upc, uresp, stW, ucall,
                   uret, observed, torn, closeCalls, ureqs, lastRefreshed,
                   bpc, sresp, pages, gg>>

\* the nil test, the default host, ctx and c, and the call of RunWithRetry
NewClientEnter ==
    /\ mainPc = "start"
    /\ IF HTTPClientMissing(config)
       THEN /\ mainPc' = "failed"
            /\ client' = "nil"
            /\ newErr' = <<"http client should not be nil">>
            /\ UNCHANGED <<rw, config, accessToken>>
       ELSE /\ mainPc' = "refresh"
            /\ config' = [config EXCEPT !.host = IF @ = "" THEN "default" ELSE @]
            /\ accessToken' = Header(EmptyString)
            /\ rw' = [rw EXCEPT !["init"] = InitialRetry]
            /\ UNCHANGED <<client, newErr>>
    /\ UNCHANGED <<opScript, cancelled, schedPc, schedStarts, tickReady, upc,
                   uresp, stW, uret, observed, torn, ucall, closeCalls,
                   ureqs, lastRefreshed, bpc, sresp, pages, gg>>

\* RunWithRetry returned: return nil, err or c.runAccessTokenScheduler(ctx),
\* whose go statement creates the scheduler goroutine
NewClientAfterRefresh ==
    /\ mainPc = "refresh"
    /\ rw["init"].pc = "done"
    /\ IF InitialRefreshFailed(rw["init"].ret)
       THEN /\ mainPc' = "failed"
            /\ client' = "nil"
            /\ newErr' = <<"can't initialize access token", rw["init"].ret>>
            /\ UNCHANGED <<schedPc, schedStarts>>
       ELSE /\ mainPc' = "started"
            /\ schedPc' = "spawned"
            /\ schedStarts' = schedStarts + 1
            /\ UNCHANGED <<client, newErr>>
    /\ UNCHANGED <<rw, opScript, config, cancelled, tickReady, upc, uresp,
                   stW, accessToken, uret, observed, torn, ucall, closeCalls,
                   ureqs, lastRefreshed, bpc, sresp, pages, gg>>

\* return c, nil
NewClientReturn ==
    /\ mainPc = "started"
    /\ mainPc' = "returned"
    /\ client' = "c"
    /\ newErr' = <<Nil>>
    /\ UNCHANGED <<rw, opScript, config, cancelled, schedPc, schedStarts,
                   tickReady, upc, uresp, stW, accessToken, uret, observed,
                   torn, ucall, closeCalls, ureqs, lastRefreshed, bpc, sresp,
                   pages, gg>>

(* ------------------------------------------------------------------ *)
(* runAccessTokenScheduler: the goroutine                               *)
(* ------------------------------------------------------------------ *)

\* the cases of the select that can proceed; Go picks one of them at random
SelectCases(done, tick) ==
    (IF done THEN {"done"} ELSE {}) \cup (IF tick THEN {"tick"} ELSE {})

\* The goroutine reaches the select: after time.NewTicker (no tick can be
\* ready yet: the interval is 7000 s) or after RunWithRetry returned.  With no
\* case ready it parks on both channels.
SchedulerSelect ==
    /\ schedPc = "spawned" \/ (schedPc = "retry" /\ rw["sched"].pc = "done")
    /\ \E case \in (IF SelectCases(cancelled, tickReady) = {}
                    THEN {"park"} ELSE SelectCases(cancelled, tickReady)) :
          /\ schedPc' = CASE case = "done" -> "stopped"
                          [] case = "tick" -> "retry"
                          [] case = "park" -> "parked"
          /\ rw' = [rw EXCEPT !["sched"] = IF case = "tick"
                                           THEN SchedulerRetry
                                           ELSE RetryIdle]
          /\ tickReady' = IF case = "tick" THEN FALSE ELSE tickReady
    /\ UNCHANGED <<opScript, config, mainPc, client, newErr, cancelled,
                   schedStarts, upc, uresp, stW, accessToken, uret, observed,
                   torn, ucall, closeCalls, ureqs, lastRefreshed, bpc, sresp,
                   pages, gg>>

\* the parked goroutine was woken by the close of ctx.Done(): return
SchedulerStop ==
    /\ schedPc = "parked"
    /\ cancelled
    /\ schedPc' = "stopped"
    /\ UNCHANGED <<rw, opScript, config, mainPc, client, newErr, cancelled,
                   schedStarts, tickReady, upc, uresp, stW, accessToken,
                   uret, observed, torn, ucall, closeCalls, ureqs,
                   lastRefreshed, bpc, sresp, pages, gg>>

\* the refresh run by the ticker itself, whether or not the goroutine returned
TickerFireRestarts ==
    /\ schedPc \notin {"none", "spawned"}
    /\ IF schedPc = "stopped" \/ (schedPc = "parked" /\ ~cancelled)
       THEN /\ schedPc' = "retry"
            /\ rw' = [rw EXCEPT !["sched"] = SchedulerRetry]
            /\ UNCHANGED tickReady
       ELSE /\ ~tickReady
            /\ tickReady' = TRUE
            /\ UNCHANGED <<schedPc, rw>>
    /\ UNCHANGED <<opScript, config, mainPc, client, newErr, cancelled,
                   schedStarts, upc, uresp, stW, accessToken, uret, observed,
                   torn, ucall, closeCalls, ureqs, lastRefreshed, bpc, sresp,
                   pages, gg>>

\* every tick starts a retry sequence of its own, whether or not the last
\* one has returned
TickerFireReentrant ==
    /\ schedPc \notin {"none", "spawned"}
    /\ IF schedPc \in {"parked", "retry"} /\ ~cancelled
       THEN /\ schedPc' = "retry"
            /\ rw' = [rw EXCEPT !["sched"] = SchedulerRetry]
            /\ UNCHANGED tickReady
       ELSE /\ ~tickReady
            /\ tickReady' = TRUE
            /\ UNCHANGED <<schedPc, rw>>
    /\ UNCHANGED <<opScript, config, mainPc, client, newErr, cancelled,
                   schedStarts, upc, uresp, stW, accessToken, uret, observed,
                   torn, ucall, closeCalls, ureqs, lastRefreshed, bpc, sresp,
                   pages, gg>>

\* The ticker fires (it is never stopped).  A goroutine parked in the select
\* and not yet woken receives the tick at once and goes on to RunWithRetry;
\* otherwise the tick is kept in the channel, or dropped when one is there.
TickerFire ==
    /\ schedPc \notin {"none", "spawned"}
    /\ IF schedPc = "parked" /\ ~cancelled
       THEN /\ schedPc' = "retry"
            /\ rw' = [rw EXCEPT !["sched"] = SchedulerRetry]
            /\ UNCHANGED tickReady
       ELSE /\ ~tickReady
            /\ tickReady' = TRUE
            /\ UNCHANGED <<schedPc, rw>>
    /\ UNCHANGED <<opScript, config, mainPc, client, newErr, cancelled,
                   schedStarts, upc, uresp, stW, accessToken, uret, observed,
                   torn, ucall, closeCalls, ureqs, lastRefreshed, bpc, sresp,
                   pages, gg>>

\* time.Sleep(interval) of a retry returns
RetrySleepDone(r) ==
    /\ r \in {"init", "sched"}
    /\ rw[r].pc = "sleep"
    /\ rw' = [rw EXCEPT ![r] = RetryWake(@)]
    /\ UNCHANGED <<opScript, clientVars>>

(* ------------------------------------------------------------------ *)
(* Specifications                                                       *)
(* ------------------------------------------------------------------ *)

ClientInit ==
    /\ ucall = "none"
    /\ config \in [httpNil : BOOLEAN, host : {"", "given", "bad"}]
    /\ mainPc = "start"
    /\ client = "none"
    /\ newErr = <<NoRet>>
    /\ cancelled = FALSE
    /\ schedPc = "none"
    /\ schedStarts = 0
    /\ tickReady = FALSE
    /\ upc = [r \in Refreshers |-> "idle"]
    /\ uresp = [r \in Refreshers |-> NoValue]
    /\ stW = [r \in Refreshers |-> {}]
    /\ accessToken = Header(EmptyString)
    /\ uret = NoRet
    /\ observed = NotRead
    /\ torn = [r \in Refreshers |-> FALSE]
    /\ closeCalls = 0
    /\ ureqs = 0
    /\ lastRefreshed = EmptyString
    /\ bpc = "idle"
    /\ sresp = NoResponse
    /\ pages = <<0>>
    /\ gg = GGStart

Init ==
    /\ rw = [k \in Retriers |-> RetryIdle]
    /\ opScript = [always |-> TRUE, failN |-> 0]
    /\ ClientInit

InitialRefresh ==
    \/ RetryUpdateAccessToken("init")
    \/ UpdateAccessTokenFails("init")
    \/ UpdateAccessTokenGetsToken("init")
    \/ UpdateAccessTokenStore("init")
    \/ RetrySleepDone("init")

SchedulerRefresh ==
    \/ RetryUpdateAccessToken("sched")
    \/ UpdateAccessTokenFails("sched")
    \/ UpdateAccessTokenGetsToken("sched")
    \/ UpdateAccessTokenStore("sched")
    \/ RetrySleepDone("sched")

UserRefresh ==
    \/ UserUpdateAccessToken
    \/ UpdateAccessTokenFails("user")
    \/ UpdateAccessTokenGetsToken("user")
    \/ UpdateAccessTokenStore("user")

Scheduler == SchedulerSelect \/ SchedulerStop \/ SchedulerRefresh

Next ==
    \/ NewClientEnter
    \/ NewClientAfterRefresh
    \/ NewClientReturn
    \/ InitialRefresh
    \/ Scheduler
    \/ TickerFire
    \/ UserRefresh
    \/ AccessToken
    \/ Close

Spec == Init /\ [][Next]_vars

RetryInit ==
    /\ \E m \in -1 .. MaxRetryIn, d \in {InitInterval, SchedInterval} :
          rw = [k \in Retriers |-> IF k = "call"
                                   THEN WithInterval(RetryStart(m, CountCap), d)
                                   ELSE RetryIdle]
    /\ opScript \in {[always |-> TRUE, failN |-> 0]}
                    \cup [always : {FALSE}, failN : 0 .. MaxFail]
    /\ ClientInit

RetryNext == CallInvoke \/ CallOpReturns \/ CallWake

RetrySpec == RetryInit /\ [][RetryNext]_vars

\* The Go scheduler runs a runnable goroutine, time.Sleep returns and an HTTP
\* exchange ends (with some outcome): the scheduler goroutine keeps stepping.
LiveSpec == Init /\ [][Next]_vars /\ WF_vars(Scheduler)

\* LiveSpec with an auth endpoint that recovers: of the scheduler's exchanges,
\* made again and again, one eventually gets a token.
RecoverSpec ==
    /\ Init /\ [][Next]_vars
    /\ WF_vars(Scheduler)
    /\ SF_vars(UpdateAccessTokenGetsToken("sched"))

\* A client as NewClient returns it (the initial refresh succeeded at once
\* and stored its token, the scheduler goroutine is parked in its select), on
\* which a user makes business calls one after the other.
BusinessInit ==
    /\ rw = [k \in Retriers |->
               IF k = "init" THEN RetryAfterFn(RetryInvoke(InitialRetry), Nil)
                             ELSE RetryIdle]
    /\ opScript = [always |-> TRUE, failN |-> 0]
    /\ config \in [httpNil : {FALSE}, host : {"default", "given"}]
    /\ mainPc = "returned"
    /\ client = "c"
    /\ newErr = <<Nil>>
    /\ cancelled = FALSE
    /\ schedPc = "parked"
    /\ schedStarts = 1
    /\ tickReady = FALSE
    /\ upc = [r \in Refreshers |-> "idle"]
    /\ uresp = [r \in Refreshers |-> NoValue]
    /\ stW = [r \in Refreshers |-> {}]
    /\ \E v \in TokenValues : /\ accessToken = Header(ExtractedToken(v))
                              /\ lastRefreshed = ExtractedToken(v)
    /\ ucall = "none"
    /\ uret = NoRet
    /\ observed = NotRead
    /\ torn = [r \in Refreshers |-> FALSE]
    /\ closeCalls = 0
    /\ ureqs = 0
    /\ bpc = "idle"
    /\ sresp = NoResponse
    /\ pages \in Listings
    /\ gg = GGStart

Send == \E kind \in SendKinds : SendBegin(kind) \/ SendReturns(kind)

GetGroupIDs == GetGroupIDsBegin \/ GetGroupIDsRequest \/ GetGroupIDsResponse

BusinessNext == Send \/ GetGroupIDs

BusinessSpec == BusinessInit /\ [][BusinessNext]_vars

(* ------------------------------------------------------------------ *)
(* Properties of helper.RunWithRetry (checked under RetrySpec)          *)
(* ------------------------------------------------------------------ *)

\* C1: for every maxRetry > 0 and an operation that fails on each call,
\* RunWithRetry invokes the operation exactly maxRetry times, never more, and
\* returns the error of the last invocation.
C1_ExhaustionReturnsLastError ==
    LET s == rw["call"] IN
    (s.maxRetry > 0 /\ (opScript.always \/ opScript.failN >= s.maxRetry)) =>
        /\ s.calls <= s.maxRetry
        /\ s.pc = "done" => (s.calls = s.maxRetry /\ s.ret = ErrOf(s.maxRetry))

C1_Witness ==
    /\ rw["call"].pc = "done"
    /\ rw["call"].maxRetry = 3
    /\ opScript.always
    /\ rw["call"].calls = 3
    /\ rw["call"].ret = ErrOf(3)

\* C2: RunWithRetry invokes the operation at least once and stops at the first
\* success: when the operation fails N times and then succeeds, with
\* maxRetry <= 0 or maxRetry > N, it returns nil after exactly N+1 invocations
\* and never invokes the operation again.
C2_StopsAtFirstSuccess ==
    LET s == rw["call"] IN
    /\ s.pc = "done" => s.calls >= 1
    /\ (~opScript.always /\ (s.maxRetry <= 0 \/ s.maxRetry > opScript.failN)) =>
          /\ s.calls <= opScript.failN + 1
          /\ s.pc = "done" => (s.ret = Nil /\ s.calls = opScript.failN + 1)

C2_Witness ==
    /\ rw["call"].pc = "done"
    /\ rw["call"].maxRetry <= 0
    /\ opScript = [always |-> FALSE, failN |-> 2]
    /\ rw["call"].calls = 3
    /\ rw["call"].ret = Nil

(* ------------------------------------------------------------------ *)
(* Properties of the client (checked under Spec and LiveSpec)           *)
(* ------------------------------------------------------------------ *)

\* a new tick starts: the select's ticker case is taken and RunWithRetry entered
NewTickStarts == rw["sched"].pc \in {"idle", "done"} /\ rw'["sched"].pc = "loop"

\* C3: once Close has been called the scheduler starts no new tick, also when
\* ticker and cancellation are both ready at the same select.
C3_NoNewTickAfterClose == [][cancelled => ~NewTickStarts]_vars

\* C4: after Close the scheduler goroutine eventually exits.
C4_CloseLeadsToStopped == cancelled ~> (schedPc = "stopped")

\* the scheduler's RunWithRetry, having invoked the operation before, invokes it again
SchedRetryInvokesAgain ==
    /\ rw["sched"].pc = "loop"
    /\ rw["sched"].i >= 1
    /\ rw'["sched"].pc # "loop"

\* C5: with maxRetry <= 0 RunWithRetry stops retrying when the caller's
\* cancellation signal has fired: it does not invoke the operation again.
C5_NoRetryAfterCancellation == [][cancelled => ~SchedRetryInvokesAgain]_vars

\* C6: if all 3 initial refresh attempts fail, NewClient returns an error and no
\* client after exactly 3 attempts, and the scheduler is never started.
C6_InitialRefreshAllFail ==
    LET s == rw["init"] IN
    /\ s.calls <= InitMaxRetry
    /\ s.fails = InitMaxRetry =>
          /\ s.pc = "done" /\ s.ret # Nil /\ s.calls = InitMaxRetry
          /\ mainPc \in {"refresh", "failed"}
          /\ schedPc = "none" /\ schedStarts = 0 /\ client # "c"
    /\ (mainPc = "failed" /\ ~config.httpNil) =>
          /\ s.fails = InitMaxRetry
          /\ client = "nil" /\ newErr \notin {<<Nil>>, <<NoRet>>}

C6_Witness ==
    /\ mainPc = "failed"
    /\ ~config.httpNil
    /\ config.host = "given"
    /\ rw["init"].calls = 3
    /\ client = "nil"

\* C7: if the first 2 initial attempts fail and the 3rd succeeds, NewClient
\* succeeds; the scheduler is started exactly once on every successful
\* construction, only after a refresh succeeded and before the client is returned.
C7_SchedulerStartedOnceAfterRefresh ==
    LET s == rw["init"] IN
    /\ (s.pc = "done" /\ s.calls = InitMaxRetry /\ s.fails = InitMaxRetry - 1) =>
          /\ s.ret = Nil
          /\ mainPc \in {"refresh", "started", "returned"}
    /\ schedStarts <= 1
    /\ (schedStarts >= 1 \/ schedPc # "none") => (s.pc = "done" /\ s.ret = Nil)
    /\ mainPc = "started" => (schedStarts = 1 /\ client = "none")
    /\ client = "c" <=> mainPc = "returned"
    /\ mainPc = "returned" => (schedStarts = 1 /\ schedPc # "none" /\ newErr = <<Nil>>)

C7_Witness ==
    /\ mainPc = "returned"
    /\ client = "c"
    /\ rw["init"].calls = 3
    /\ rw["init"].fails = 2
    /\ schedStarts = 1

\* C8: NewClient with a nil HTTP client returns an error and no client before
\* any refresh attempt and without starting the scheduler.
C8_NilHTTPClientFailsFast ==
    config.httpNil =>
        /\ mainPc \in {"start", "failed"}
        /\ rw["init"] = RetryIdle
        /\ upc["init"] = "idle"
        /\ schedPc = "none" /\ schedStarts = 0
        /\ client # "c"
        /\ mainPc = "failed" =>
              (client = "nil" /\ newErr = <<"http client should not be nil">>)

C8_Witness == config.httpNil /\ mainPc = "failed" /\ client = "nil"

\* the string value of an app_access_token field
TokenText(v) == IF v.type = "String" THEN v.str ELSE EmptyString

CompleteTokens == {EmptyString} \cup {TokenText(v) : v \in TokenValues}

\* C10: a read of the token store concurrent with a refresh's write yields a
\* complete token, the old or the new one, never a partially written value.
C10_NoTornRead == observed \in CompleteTokens \cup {NotRead}

(* ------------------------------------------------------------------ *)
(* Properties of Close (checked under Spec)                             *)
(* ------------------------------------------------------------------ *)

\* what Close may touch besides what it hands back to its caller
CloseScope == <<rw, config, mainPc, client, newErr, schedPc, schedStarts,
                tickReady, upc, uresp, stW, accessToken, torn>>

\* C11: Close is idempotent.  Every call cancels the scheduler's context and
\* returns nil, a call after the first changes nothing of the client, no call
\* changes the stored token, and AccessToken can still be called afterwards.
C11_CloseIdempotent ==
    /\ [](closeCalls > 0 /\ upc["user"] = "idle" => cancelled /\ ENABLED AccessToken)
    /\ [][closeCalls' # closeCalls =>
            /\ cancelled' /\ uret' = Nil /\ ucall' = "Close"
            /\ accessToken' = accessToken
            /\ CloseScope' = CloseScope]_vars

C11_Witness ==
    /\ closeCalls = MaxClose
    /\ ucall = "AccessToken"
    /\ observed = <<"b", "c">>

(* ------------------------------------------------------------------ *)
(* Properties of the scheduler goroutine (checked under Spec)           *)
(* ------------------------------------------------------------------ *)

\* C12: a client never has more than one scheduler goroutine, and a goroutine
\* that has returned stays returned: whatever is called on the client
\* afterwards, no scheduler position and no scheduler refresh comes back.
C12_OneSchedulerNoRestart ==
    /\ [](schedStarts <= 1)
    /\ [](schedPc = "stopped" => upc["sched"] = "idle" /\ rw["sched"].pc \in {"idle", "done"})
    /\ [][schedPc = "stopped" =>
            /\ schedPc' = "stopped"
            /\ schedStarts' = schedStarts
            /\ upc'["sched"] = upc["sched"]
            /\ rw'["sched"] = rw["sched"]]_vars

C12_Witness ==
    /\ schedPc = "stopped"
    /\ schedStarts = 1
    /\ closeCalls = MaxClose
    /\ ucall = "UpdateAccessToken"
    /\ uret = Nil

\* an exchange of the scheduler's refresh fails in this step
SchedExchangeFails == upc["sched"] = "http" /\ upc'["sched"] = "idle"

\* C13 (checked under RecoverSpec): without Close, a failed exchange of the
\* scheduler's refresh neither ends the goroutine nor reaches a caller: the
\* retry goes to sleep to try again, its RunWithRetry never returns an error,
\* and with an endpoint that recovers the retry ends with nil (the token
\* stored) and the goroutine is back at its select.
C13_SchedulerSurvivesFailures ==
    /\ [](~cancelled => schedPc # "stopped")
    /\ [](rw["sched"].ret \in {NoRet, Nil})
    /\ [][SchedExchangeFails =>
            /\ schedPc' = "retry"
            /\ rw'["sched"].pc = "sleep"
            /\ <<uret, ucall, observed, newErr, client, mainPc>>'
                 = <<uret, ucall, observed, newErr, client, mainPc>>
            /\ accessToken' = accessToken]_vars
    /\ (schedPc = "retry" /\ ~cancelled)
          ~> (cancelled \/ (schedPc = "retry" /\ rw["sched"].pc = "done"
                                               /\ rw["sched"].ret = Nil))

\* a scheduler refresh that failed, slept, and then succeeded
C13_Witness ==
    /\ ~cancelled
    /\ schedPc = "retry"
    /\ rw["sched"].pc = "done"
    /\ rw["sched"].ret = Nil
    /\ rw["sched"].fails > 0
    /\ rw["sched"].sleeps > 0
    /\ LoadString(accessToken) = <<"b", "c">>

(* ------------------------------------------------------------------ *)
(* Properties of a user's UpdateAccessToken (checked under Spec)        *)
(* ------------------------------------------------------------------ *)

\* the user's UpdateAccessToken has returned an error
UserRefreshFailed == ucall = "UpdateAccessToken" /\ uret \notin {Nil, NoRet}

ExchangeFails(r) == upc[r] = "http" /\ upc'[r] = "idle"

\* C18: a refresh whose exchange fails (transport, status, body read, field
\* absent) hands an error to its caller and leaves c.accessToken as it was;
\* c.accessToken changes only in the store of a refresh that got a token.
C18_FailedRefreshKeepsToken ==
    /\ [][\A r \in Refreshers : ExchangeFails(r) =>
            /\ accessToken' = accessToken
            /\ stW' = stW /\ uresp' = uresp
            /\ IF r = "user"
               THEN uret' \in ExchangeErrors
               ELSE /\ rw'[r].pc \in {"sleep", "done"}
                    /\ rw'[r].pc = "done" => rw'[r].ret \in ExchangeErrors]_vars
    /\ [][accessToken' # accessToken =>
            \E r \in Refreshers : /\ upc[r] = "store"
                                  /\ uresp[r] \in TokenValues
                                  /\ stW'[r] # stW[r]]_vars

\* a user's refresh failed on a body without the field; the token of an
\* earlier refresh is still stored
C18_Witness ==
    /\ ucall = "UpdateAccessToken"
    /\ uret = "no_token"
    /\ LoadString(accessToken) = <<"b", "c">>
    /\ \A r \in Refreshers : upc[r] = "idle"

(* ------------------------------------------------------------------ *)
(* Attempts and waits of helper.RunWithRetry (checked under RetrySpec)  *)
(* ------------------------------------------------------------------ *)

\* C19: invocations and sleeps alternate.  While the counts are below their
\* cap: at the top of the loop as many sleeps have ended as invocations were
\* made; inside an invocation, inside a sleep and after the return one sleep
\* fewer, so one sleep lies between two invocations and none after the last;
\* every sleep lasts the interval given; a sleep is followed by an invocation
\* and the returned call does nothing more.
C19_AttemptsAndWaitsAlternate ==
    /\ [](rw["call"].calls < rw["call"].cap =>
            /\ rw["call"].pc = "loop" => rw["call"].sleeps = rw["call"].calls
            /\ rw["call"].pc \in {"fn", "sleep", "done"}
                  => rw["call"].sleeps = rw["call"].calls - 1)
    /\ [](rw["call"].pc = "sleep" \/ rw["call"].sleeps > 0
            => rw["call"].delay = rw["call"].interval)
    /\ [][/\ rw["call"].pc = "loop" => rw'["call"].pc = "fn"
          /\ rw["call"].pc = "fn" => rw'["call"].pc \in {"sleep", "done"}
          /\ rw["call"].pc = "sleep" => rw'["call"].pc = "loop"
          /\ rw["call"].pc = "done" => rw'["call"] = rw["call"]]_vars

\* three invocations, two sleeps of the interval, returned on exhaustion
C19_Witness ==
    LET s == rw["call"] IN
    /\ s.pc = "done"
    /\ s.ret # Nil
    /\ s.calls = InitMaxRetry
    /\ s.sleeps = InitMaxRetry - 1
    /\ s.delay = SchedInterval

(* ------------------------------------------------------------------ *)
(* The stored token under interleaved refreshes (checked under Spec)    *)
(* ------------------------------------------------------------------ *)

\* C20: in every reachable state in which no assignment to c.accessToken is
\* half done, c.accessToken reads as the initial empty string or as the token
\* extracted by the refresh that completed successfully last, however the
\* initial, the scheduler's and the users' refreshes interleave.
C20_TokenIsLastRefreshed ==
    (\A r \in Refreshers : stW[r] = {})
        => LoadString(accessToken) \in {EmptyString, lastRefreshed}

(* ------------------------------------------------------------------ *)
(* Properties of the sends (checked under BusinessSpec)                 *)
(* ------------------------------------------------------------------ *)

\* the user's last call was a send and it has returned
SendReturned == ucall \in SendKinds /\ bpc = "idle"

\* what a send must leave alone: the refreshes, the retries, the scheduler
\* and the stored token
RefreshState == <<rw, upc, uresp, stW, accessToken, schedPc, cancelled>>

\* C15 as claimed: every call of SendPrivateMessage or SendGroupMessage
\* issues exactly one HTTP request.
C15_ExactlyOneRequest == SendReturned => ureqs = 1

\* C15 as the code has it: a send issues at most one HTTP request: none when
\* the request cannot be built, else exactly one; the step that ends the
\* request returns to the caller, with the error of that one response, and
\* starts neither another request nor a refresh.
C15_AtMostOneRequestNoRetry ==
    /\ [](ucall \in SendKinds => ureqs <= 1)
    /\ [](SendReturned => (ureqs = 0 <=> uret = "request_err"))
    /\ [](SendReturned /\ ureqs = 1 => uret = SendError(sresp))
    /\ [][(bpc \in SendKinds) =>
            /\ bpc' = "idle"
            /\ ureqs' = ureqs
            /\ uret' = SendError(sresp')
            /\ RefreshState' = RefreshState]_vars
    /\ [][(ucall' \in SendKinds) => RefreshState' = RefreshState]_vars

C15_Witness ==
    /\ SendReturned
    /\ ucall = "SendGroupMessage"
    /\ uret = "code_err"
    /\ ureqs = 1
    /\ observed = EmptyString

\* C16: SendPrivateMessage, its request made, returns nil exactly when the
\* transport succeeded, the status was 200 and the body held a code field
\* equal to 0.
C16_NilIffCodeZero ==
    ucall = "SendPrivateMessage" /\ bpc = "idle" /\ ureqs = 1
        => (uret = Nil <=> /\ sresp.kind = "body"
                           /\ sresp.status = StatusOK
                           /\ sresp.code = JsonNumber(0))

(* ------------------------------------------------------------------ *)
(* Properties of GetGroupIDs (checked under BusinessSpec)               *)
(* ------------------------------------------------------------------ *)

IsPrefix(a, b) == Len(a) <= Len(b) /\ a = SubSeq(b, 1, Len(a))

\* the user's last call was GetGroupIDs and it has returned
ListReturned == ucall = "GetGroupIDs" /\ bpc = "idle"

\* C17: GetGroupIDs returns all the group ids of the server's listing.  A
\* call that returns without error returns the ids of every page in order, a
\* call that returns an error returns no ids, and the ids a call has
\* collected so far are always the ids of the first pages in order, so that
\* the call can end with all of them.
C17_ReturnsAllPagesInOrder ==
    /\ ListReturned /\ uret = Nil => gg.ret = AllIDs
    /\ ListReturned /\ uret # Nil => gg.ret = << >>
    /\ ucall = "GetGroupIDs" => IsPrefix(gg.groupIDs, AllIDs)

\* a page request goes out in this step
PageRequested == bpc = "list" /\ bpc' = "listWait"

\* a page came back without error and with a next_cursor: the loop goes on
PageHasNext == bpc = "listWait" /\ bpc' = "list"

\* C21: within one GetGroupIDs call the next_cursor of a page is not passed
\* to the following request.  The local cursor stays empty, also in the step
\* in which a page with a next_cursor is taken in; every request's query
\* holds page_size alone, so it asks for the first page; and every id a call
\* has collected is an id of the first page.
C21_CursorNeverPassed ==
    /\ [](ucall = "GetGroupIDs" => gg.cursor = EmptyString)
    /\ [](ucall = "GetGroupIDs" /\ gg.query # NoQuery =>
            /\ gg.query = [page_size |-> PageSize]
            /\ PageAsked(gg.query) = 1)
    /\ [](\A n \in 1 .. Len(gg.groupIDs) : gg.groupIDs[n][1] = 1)
    /\ [][PageHasNext => gg'.cursor = EmptyString]_vars
    /\ [][PageRequested => "cursor" \notin DOMAIN gg'.query]_vars

\* the second request of a call on a listing of several pages, sent after the
\* first page's ids were taken in
C21_Witness ==
    /\ ucall = "GetGroupIDs"
    /\ bpc = "listWait"
    /\ ureqs = 2
    /\ Len(pages) > 1
    /\ gg.groupIDs = PageIDs(1)
    /\ gg.groupIDs # << >>
    /\ gg.query = [page_size |-> PageSize]

(* ------------------------------------------------------------------ *)
(* The scheduler's refreshes do not overlap (checked under Spec)        *)
(* ------------------------------------------------------------------ *)

\* a retry sequence of the scheduler is running: RunWithRetry was entered
\* and has not returned
SchedSequenceRunning == rw["sched"].pc \in {"loop", "fn", "sleep"}

\* the scheduler's RunWithRetry is entered in this step
SchedSequenceStarts ==
    rw'["sched"] = SchedulerRetry /\ rw["sched"] # SchedulerRetry

\* the interval elapses in this step while a retry sequence is running
TickDuringSequence == SchedSequenceRunning /\ ~tickReady /\ tickReady'

\* C22: the scheduler is not reentrant.  An exchange of the scheduler is in
\* flight only as the current invocation of its one running retry sequence;
\* a sequence is entered only by the goroutine at its select, with no
\* sequence running and no exchange in flight; and a tick that comes while a
\* sequence runs is kept in ticker.C and changes nothing of that sequence.
C22_SchedulerNotReentrant ==
    /\ [](upc["sched"] # "idle" =>
            schedPc = "retry" /\ rw["sched"].pc = "fn")
    /\ [](SchedSequenceRunning => schedPc = "retry")
    /\ [][SchedSequenceStarts =>
            /\ ~SchedSequenceRunning
            /\ upc["sched"] = "idle"
            /\ schedPc \in {"parked", "spawned", "retry"}]_vars
    /\ [][TickDuringSequence =>
            /\ rw' = rw
            /\ upc' = upc
            /\ schedPc' = schedPc]_vars

\* the ticker has fired while an exchange of the running sequence is in
\* flight, after an earlier failure of that sequence
C22_Witness ==
    /\ schedPc = "retry"
    /\ rw["sched"].pc = "fn"
    /\ rw["sched"].fails > 0
    /\ upc["sched"] = "http"
    /\ tickReady
    /\ ~cancelled

====
